---- MODULE Spec2Model ----
(***************************************************************************)
(* Model of the Vertex AI Claude adapter (vertex-claude.js):               *)
(* generateVertexClaudeText, streamVertexClaudeText and                    *)
(* generateVertexClaudeObject, with getAccessToken, the request payload    *)
(* construction and the extraction of the text from the response body.     *)
(*                                                                         *)
(* Texts are sequences of atoms.  The punctuation and white-space atoms    *)
(* are single characters; an alphabetic atom ("text", "null", "not", ...)  *)
(* stands for that maximal run of letters, and a digit atom for one digit. *)
(* JavaScript values are records [t, s, items] of one shape, so that any   *)
(* two of them can be compared:                                            *)
(*   t = "undef" | "null" | "true" | "false" | "num" | "str" | "arr"       *)
(*       | "obj"; s = the characters of a string or the digits of a        *)
(*   number; items = the elements of an array (k = <<>>) or the members    *)
(*   of an object (k = the key), in insertion order.                       *)
(***************************************************************************)
EXTENDS Integers, Sequences, FiniteSets, TLC

QUOTE == "\""
BSL == "\\"
NL == "\n"
SP == " "

WhiteSpace == {SP, NL}
Digits == {"0", "4", "5"}

\* ---------------------------------------------------------------- values
J(t, s, items) == [t |-> t, s |-> s, items |-> items]
Undef == J("undef", <<>>, <<>>)
JNull == J("null", <<>>, <<>>)
JTrue == J("true", <<>>, <<>>)
JFalse == J("false", <<>>, <<>>)
JNum(digits) == J("num", digits, <<>>)
JStr(chars) == J("str", chars, <<>>)
Item(k, v) == [k |-> k, v |-> v]
JArr(vals) == J("arr", <<>>, [i \in 1..Len(vals) |-> Item(<<>>, vals[i])])
JObj(members) == J("obj", <<>>, members)

\* JavaScript ToBoolean
Truthy(v) ==
  CASE v.t \in {"undef", "null", "false"} -> FALSE
    [] v.t = "num" -> \E i \in 1..Len(v.s) : v.s[i] # "0"
    [] v.t = "str" -> Len(v.s) > 0
    [] OTHER -> TRUE

\* v && w
And(v, w) == IF Truthy(v) THEN w ELSE v

\* Array.isArray(v)
IsArray(v) == v.t = "arr"

\* Property access v.key by name (v is not null or undefined: the callers
\* guard it).  Only objects of parsed JSON have named properties here.
Get(v, key) ==
  IF v.t = "obj" /\ \E i \in 1..Len(v.items) : v.items[i].k = <<key>>
  THEN v.items[CHOOSE i \in 1..Len(v.items) : v.items[i].k = <<key>>].v
  ELSE Undef

\* v[0] of an array v
First(v) == IF Len(v.items) > 0 THEN v.items[1].v ELSE Undef

\* does reading a property of v throw a TypeError?
Throws(v) == v.t \in {"undef", "null"}

\* ----------------------------------------------------------------- texts
\* Array.prototype.join
RECURSIVE Join(_, _)
Join(ss, sep) ==
  IF ss = <<>> THEN <<>>
  ELSE IF Len(ss) = 1 THEN ss[1]
  ELSE ss[1] \o sep \o Join(Tail(ss), sep)

\* String.prototype.trim
RECURSIVE TrimStart(_)
TrimStart(s) ==
  IF s # <<>> /\ Head(s) \in WhiteSpace THEN TrimStart(Tail(s)) ELSE s

RECURSIVE TrimEnd(_)
TrimEnd(s) ==
  IF s # <<>> /\ s[Len(s)] \in WhiteSpace
  THEN TrimEnd(SubSeq(s, 1, Len(s) - 1)) ELSE s

Trim(s) == TrimEnd(TrimStart(s))

\* String.prototype.split('\n'): always at least one piece
RECURSIVE SplitFrom(_, _, _)
SplitFrom(s, i, cur) ==
  IF i > Len(s) THEN <<cur>>
  ELSE IF s[i] = NL THEN <<cur>> \o SplitFrom(s, i + 1, <<>>)
  ELSE SplitFrom(s, i + 1, Append(cur, s[i]))

SplitLines(s) == SplitFrom(s, 1, <<>>)

\* ------------------------------------------------------------ JSON.parse
\* the atom at position i, "" past the end
At(s, i) == IF i \in 1..Len(s) THEN s[i] ELSE ""

\* a parse result: ok, the value, and the position after it
R(ok, v, i) == [ok |-> ok, v |-> v, i |-> i]
Fail == R(FALSE, Undef, 0)

RECURSIVE SkipWs(_, _)
SkipWs(s, i) == IF At(s, i) \in WhiteSpace THEN SkipWs(s, i + 1) ELSE i

\* the characters of a string literal, from the position after its opening
\* quote; of the escapes only \" and \\ are modelled
RECURSIVE ParseChars(_, _, _)
ParseChars(s, i, acc) ==
  IF i > Len(s) \/ s[i] = NL THEN Fail
  ELSE IF s[i] = QUOTE THEN R(TRUE, JStr(acc), i + 1)
  ELSE IF s[i] = BSL
       THEN IF At(s, i + 1) \in {QUOTE, BSL}
            THEN ParseChars(s, i + 2, Append(acc, s[i + 1]))
            ELSE Fail
  ELSE ParseChars(s, i + 1, Append(acc, s[i]))

RECURSIVE DigitsEnd(_, _)
DigitsEnd(s, i) == IF At(s, i) \in Digits THEN DigitsEnd(s, i + 1) ELSE i

\* a non-negative integer literal without a leading zero
ParseNumber(s, i) ==
  LET e == DigitsEnd(s, i)
  IN  IF e - i > 1 /\ s[i] = "0" THEN Fail
      ELSE R(TRUE, JNum(SubSeq(s, i, e - 1)), e)

\* obj[key] = val: a repeated key keeps its place and takes the last value
Put(members, key, val) ==
  IF \E n \in 1..Len(members) : members[n].k = key
  THEN [n \in 1..Len(members) |->
          IF members[n].k = key THEN Item(key, val) ELSE members[n]]
  ELSE Append(members, Item(key, val))

RECURSIVE ParseValue(_, _)
RECURSIVE ParseElems(_, _, _)
RECURSIVE ParseMembers(_, _, _)

ParseElems(s, i, acc) ==
  LET r == ParseValue(s, i)
      j == SkipWs(s, r.i)
  IN  IF ~r.ok THEN Fail
      ELSE IF At(s, j) = "," THEN ParseElems(s, j + 1, Append(acc, r.v))
      ELSE IF At(s, j) = "]" THEN R(TRUE, JArr(Append(acc, r.v)), j + 1)
      ELSE Fail

ParseMembers(s, i, acc) ==
  LET j == SkipWs(s, i)
      k == ParseChars(s, j + 1, <<>>)
      c == SkipWs(s, k.i)
      r == ParseValue(s, c + 1)
      e == SkipWs(s, r.i)
  IN  IF At(s, j) # QUOTE \/ ~k.ok \/ At(s, c) # ":" \/ ~r.ok THEN Fail
      ELSE IF At(s, e) = ","
           THEN ParseMembers(s, e + 1, Put(acc, k.v.s, r.v))
      ELSE IF At(s, e) = "}"
           THEN R(TRUE, JObj(Put(acc, k.v.s, r.v)), e + 1)
      ELSE Fail

ParseValue(s, i) ==
  LET j == SkipWs(s, i)
      a == At(s, j)
  IN  CASE a = "{" ->
             IF At(s, SkipWs(s, j + 1)) = "}"
             THEN R(TRUE, JObj(<<>>), SkipWs(s, j + 1) + 1)
             ELSE ParseMembers(s, j + 1, <<>>)
        [] a = "[" ->
             IF At(s, SkipWs(s, j + 1)) = "]"
             THEN R(TRUE, JArr(<<>>), SkipWs(s, j + 1) + 1)
             ELSE ParseElems(s, j + 1, <<>>)
        [] a = QUOTE -> ParseChars(s, j + 1, <<>>)
        [] a = "null" -> R(TRUE, JNull, j + 1)
        [] a = "true" -> R(TRUE, JTrue, j + 1)
        [] a = "false" -> R(TRUE, JFalse, j + 1)
        [] a \in Digits -> ParseNumber(s, j)
        [] OTHER -> Fail

\* JSON.parse(text): ok = FALSE stands for the SyntaxError it throws
JSONParse(text) ==
  LET r == ParseValue(text, 1)
  IN  IF r.ok /\ SkipWs(text, r.i) = Len(text) + 1 THEN r ELSE Fail

\* -------------------------------------------------------- JSON.stringify
RECURSIVE Escape(_)
Escape(s) ==
  IF s = <<>> THEN <<>>
  ELSE (IF Head(s) \in {QUOTE, BSL} THEN <<BSL, Head(s)>> ELSE <<Head(s)>>)
       \o Escape(Tail(s))

Quoted(s) == <<QUOTE>> \o Escape(s) \o <<QUOTE>>

RECURSIVE JSONStringify(_)
JSONStringify(v) ==
  CASE v.t = "str" -> Quoted(v.s)
    [] v.t = "num" -> v.s
    [] v.t = "arr" ->
         <<"[">> \o Join([n \in 1..Len(v.items) |->
                            JSONStringify(v.items[n].v)], <<",">>) \o <<"]">>
    [] v.t = "obj" ->
         <<"{">> \o Join([n \in 1..Len(v.items) |->
                            Quoted(v.items[n].k) \o <<":">>
                              \o JSONStringify(v.items[n].v)], <<",">>)
                 \o <<"}">>
    [] OTHER -> <<v.t>>

\* ------------------------------------------- /"text":"([^"]+)"/ on a text
\* the end of the run of non-quote atoms that starts at i
RECURSIVE RunEnd(_, _)
RunEnd(s, i) ==
  IF i <= Len(s) /\ s[i] # QUOTE THEN RunEnd(s, i + 1) ELSE i

\* does the pattern match at position i?
MatchesAt(s, i) ==
  /\ SubSeq(s, i, i + 4) = <<QUOTE, "text", QUOTE, ":", QUOTE>>
  /\ RunEnd(s, i + 5) > i + 5
  /\ RunEnd(s, i + 5) <= Len(s)

\* String.prototype.match: [the leftmost match, its capture], or null
TextMatch(s) ==
  IF \E i \in 1..Len(s) : i + 4 <= Len(s) /\ MatchesAt(s, i)
  THEN LET i == CHOOSE n \in 1..Len(s) :
                  /\ n + 4 <= Len(s) /\ MatchesAt(s, n)
                  /\ \A m \in 1..(n - 1) : ~(m + 4 <= Len(s) /\ MatchesAt(s, m))
       IN  JArr(<<JStr(SubSeq(s, i, RunEnd(s, i + 5))),
                  JStr(SubSeq(s, i + 5, RunEnd(s, i + 5) - 1))>>)
  ELSE JNull

\* ------------------------------------- response extraction (lines 121-181)
\* the loop over the lines: the value of the last non-blank line that
\* parses, null when there is none
RECURSIVE LastValidJson(_, _)
LastValidJson(lines, last) ==
  IF lines = <<>> THEN last
  ELSE LET line == Head(lines)
           jsonData == JSONParse(line)
       IN  IF Trim(line) # <<>> /\ jsonData.ok
           THEN LastValidJson(Tail(lines), jsonData.v)
           ELSE LastValidJson(Tail(lines), last)

\* the outcome of a block of code: a returned value or a thrown error
Returned(v) == [threw |-> FALSE, v |-> v]
Thrown == [threw |-> TRUE, v |-> Undef]

\* the else branch: the regex over the serialized object, then the object
FallbackText(lastValidJson) ==
  LET jsonStr == JSONStringify(lastValidJson)
      textMatch == TextMatch(jsonStr)
  IN  IF Truthy(textMatch) /\ Truthy(textMatch.items[2].v)
      THEN textMatch.items[2].v
      ELSE JStr(jsonStr)

\* the if / else-if chain on a truthy lastValidJson
ExtractFromJson(lastValidJson) ==
  LET delta == Get(lastValidJson, "delta")
      content == Get(lastValidJson, "content")
      message == Get(lastValidJson, "message")
      text == Get(lastValidJson, "text")
      mcontent == Get(message, "content")
  IN  IF Truthy(And(delta, Get(delta, "text")))
      THEN Returned(Get(delta, "text"))
      ELSE IF Truthy(And(content, Get(content, "text")))
      THEN Returned(Get(content, "text"))
      ELSE IF Truthy(content) /\ IsArray(content) /\ Len(content.items) > 0
              /\ Throws(First(content))
      THEN Thrown
      ELSE IF Truthy(content) /\ IsArray(content) /\ Len(content.items) > 0
              /\ Truthy(Get(First(content), "text"))
      THEN Returned(Get(First(content), "text"))
      ELSE IF Truthy(And(message, mcontent))
      THEN Returned(mcontent)
      ELSE IF Truthy(And(message, mcontent)) /\ IsArray(mcontent)
              /\ Len(mcontent.items) > 0
              /\ Truthy(Get(First(mcontent), "text"))
      THEN Returned(Get(First(mcontent), "text"))
      ELSE IF Truthy(text)
      THEN Returned(text)
      ELSE Returned(FallbackText(lastValidJson))

\* ProcessResponse returning the trimmed text when nothing parsed
ProcessResponseTrimmed(responseText) ==
  LET lines == SplitLines(Trim(responseText))
      lastValidJson == LastValidJson(lines, JNull)
  IN  IF Truthy(lastValidJson)
      THEN ExtractFromJson(lastValidJson)
      ELSE Returned(JStr(Trim(responseText)))

\* the inner try block on the response text
ProcessResponse(responseText) ==
  LET lines == SplitLines(Trim(responseText))
      lastValidJson == LastValidJson(lines, JNull)
  IN  IF Truthy(lastValidJson)
      THEN ExtractFromJson(lastValidJson)
      ELSE Returned(JStr(responseText))

\* the inner try / catch: what generateVertexClaudeText returns for a 2xx
\* response with this text
ExtractResult(responseText) ==
  LET r == ProcessResponse(responseText)
  IN  IF r.threw THEN JStr(responseText) ELSE r.v

\* String(v): the text JSON.parse makes of an argument that is not a string
RECURSIVE StringOf(_)
StringOf(v) ==
  CASE v.t \in {"str", "num"} -> v.s
    [] v.t = "obj" -> <<"[", "object", SP, "Object", "]">>
    [] v.t = "arr" ->
         Join([n \in 1..Len(v.items) |->
                 IF v.items[n].v.t \in {"null", "undef"} THEN <<>>
                 ELSE StringOf(v.items[n].v)], <<",">>)
    [] OTHER -> <<v.t>>

\* --------------------------------------- request construction (lines 42-97)
DefaultMaxTokens == 1024
MaxTokensLimit == 64000

Min(a, b) == IF a < b THEN a ELSE b

\* the destructuring default: maxTokens = 1024 when the argument is omitted
\* (an omitted argument is <<>>, a given one <<n>>)
MaxTokensParam(arg) == IF arg = <<>> THEN DefaultMaxTokens ELSE arg[1]

\* ClampMaxTokens with Math.max for Math.min
ClampMaxTokensMax(maxTokens) ==
  IF maxTokens > MaxTokensLimit THEN maxTokens ELSE MaxTokensLimit

\* max_tokens: Math.min(maxTokens, 64000)
ClampMaxTokens(maxTokens) == Min(maxTokens, MaxTokensLimit)

\* SystemPrompt keeping the first system content
RECURSIVE SystemPromptFirst(_, _)
SystemPromptFirst(messages, systemPrompt) ==
  IF messages = <<>> THEN systemPrompt
  ELSE IF Head(messages).role = "system" /\ systemPrompt = <<>>
       THEN SystemPromptFirst(Tail(messages), Head(messages).content)
       ELSE SystemPromptFirst(Tail(messages), systemPrompt)

\* the loop over the messages: the last system content, '' when none
RECURSIVE SystemPrompt(_, _)
SystemPrompt(messages, systemPrompt) ==
  IF messages = <<>> THEN systemPrompt
  ELSE IF Head(messages).role = "system"
       THEN SystemPrompt(Tail(messages), Head(messages).content)
       ELSE SystemPrompt(Tail(messages), systemPrompt)

\* the loop over the messages: the user contents, in order
RECURSIVE UserMessages(_)
UserMessages(messages) ==
  IF messages = <<>> THEN <<>>
  ELSE IF Head(messages).role = "user"
       THEN <<Head(messages).content>> \o UserMessages(Tail(messages))
       ELSE UserMessages(Tail(messages))

\* `${systemPrompt ? `${systemPrompt}\n\n` : ''}${userPrompt}`
PromptText(messages) ==
  LET systemPrompt == SystemPrompt(messages, <<>>)
      userPrompt == Join(UserMessages(messages), <<NL, NL>>)
  IN  (IF systemPrompt # <<>> THEN systemPrompt \o <<NL, NL>> ELSE <<>>)
        \o userPrompt

\* the payload; anthropic_version, temperature, top_p and top_k are copied
\* literals and parameters and are left out
Payload(messages, maxTokens) ==
  [messages |-> <<[role |-> "user",
                   content |-> <<[type |-> "text",
                                  text |-> PromptText(messages)]>>]>>,
   max_tokens |-> ClampMaxTokens(maxTokens)]

\* ------------------------------------------------- promises and errors
Pending == [state |-> "pending", v |-> Undef, error |-> ""]
Resolved(v) == [state |-> "resolved", v |-> v, error |-> ""]
Rejected(kind) == [state |-> "rejected", v |-> Undef, error |-> kind]

ConfigError == "VERTEX_PROJECT_ID and VERTEX_LOCATION environment variables must be set"
CredentialError == "Failed to get access token"
HttpError == "Vertex AI API error"
ObjectParseError == "Failed to generate object"

\* EnvMissing without the check of the location
EnvMissingProjectOnly(e) == ~Truthy(e.projectId)

\* !projectId || !location
EnvMissing(e) == ~Truthy(e.projectId) \/ ~Truthy(e.location)

\* ObjectOutcome falling back to the text when it does not parse
ObjectOutcomeFallback(text) ==
  LET r == JSONParse(StringOf(text))
  IN  IF r.ok THEN Resolved(r.v) ELSE Resolved(text)

\* the try / catch of generateVertexClaudeObject on the generated text
ObjectOutcome(text) ==
  LET r == JSONParse(StringOf(text))
  IN  IF r.ok THEN Resolved(r.v) ELSE Rejected(ObjectParseError)

\* ------------------------------------------------------------ the inputs
MaxMsgs == 3
MaxOver == 2
MaxLines == 2

RECURSIVE SeqsUpTo(_, _)
SeqsUpTo(S, n) ==
  IF n = 0 THEN {<<>>}
  ELSE LET shorter == SeqsUpTo(S, n - 1)
       IN  shorter \cup {Append(q, x) : q \in shorter, x \in S}

Str(chars) == <<QUOTE>> \o chars \o <<QUOTE>>
Key(name) == <<QUOTE, name, QUOTE, ":">>
Braces(t) == <<"{">> \o t \o <<"}">>
Brackets(t) == <<"[">> \o t \o <<"]">>

Messages ==
  [role : {"system"}, content : {<<>>, <<"s">>, <<"t">>}]
    \cup [role : {"user"}, content : {<<>>, <<"a">>, <<"b">>}]
    \cup [role : {"assistant"}, content : {<<"x">>}]

MessageLists == SeqsUpTo(Messages, MaxMsgs)

MaxTokensArgs ==
  {<<>>, <<1>>}
    \cup {<<n>> : n \in (MaxTokensLimit - 1)..(MaxTokensLimit + MaxOver)}

EnvValues == {Undef, JStr(<<>>), JStr(<<"v">>)}
Envs == [projectId : EnvValues, location : EnvValues]

\* what the credential command prints when it exits with 0
Stdouts == {<<>>, <<NL>>, <<"tok", NL>>}

\* lines of a response body that do not parse
BadLines ==
  { <<>>,
    <<SP, "not", SP, "json">>,
    Braces(Key("text")) }

\* lines of a response body that parse
JsonLines ==
  { Braces(Key("text") \o Str(<<"4">>)),
    Braces(Key("delta") \o Braces(Key("text") \o Str(<<"4">>))),
    Braces(Key("delta") \o Braces(Key("text") \o Str(<<"4", "!">>))),
    <<"0">>,
    <<"null">>,
    Braces(Key("content") \o Brackets(<<"null">>) \o <<",">>
           \o Key("message") \o Braces(Key("content") \o Str(<<"4">>))
           \o <<",">> \o Key("text") \o Str(<<"5">>)),
    Braces(Key("delta") \o Braces(Key("text") \o <<"5">>) \o <<",">>
           \o Key("text") \o Str(<<"4">>)),
    Braces(Key("message")
           \o Braces(Key("content")
                     \o Brackets(Braces(Key("text") \o Str(<<"hi">>))))),
    Braces(Key("content") \o Braces(Key("text") \o Str(<<"4">>)) \o <<",">>
           \o Key("text") \o Str(<<"5">>)),
    Braces(Key("content") \o Brackets(Braces(Key("text") \o Str(<<"4">>)))
           \o <<",">> \o Key("message")
           \o Braces(Key("content") \o Str(<<"5">>))),
    Braces(Key("message") \o Braces(Key("content") \o Str(<<"4">>))
           \o <<",">> \o Key("text") \o Str(<<"5">>)),
    Braces(Key("a") \o Braces(Key("text") \o Str(<<"hi">>))),
    <<SP>> \o Braces(Key("a") \o <<SP, "4">>) }

ResponseLines == BadLines \cup JsonLines

\* the bodies of up to n lines, joined by newlines
Bodies(n) ==
  {Join(ls, <<NL>>) : ls \in SeqsUpTo(ResponseLines, n) \ {<<>>}}

AllBodies == Bodies(MaxLines)

FewBodies ==
  { Braces(Key("text") \o Str(<<"4">>)),
    <<"not", SP, "json">> }

FewMessageLists ==
  { <<[role |-> "system", content |-> <<"s">>],
      [role |-> "user", content |-> <<"a">>]>> }

FewMaxTokensArgs == {<<>>}

\* -------------------------------------------------------------- the state
VARIABLES
  env,         \* process.env: VERTEX_PROJECT_ID and VERTEX_LOCATION
  pc,          \* where the call in progress is suspended
  op,          \* the entry point called
  params,      \* its argument: messages and maxTokens
  execs,       \* credential commands run in this call
  requests,    \* HTTP requests issued in this call, in order
  accessToken, \* what getAccessToken returned
  responseText,\* the body of the 2xx response
  textCalls,   \* invocations of generateVertexClaudeText in this call
  textResult,  \* the promise of generateVertexClaudeText
  parses,      \* JSON.parse calls of generateVertexClaudeObject in this call
  outcome      \* the promise the entry point returned

vars == <<env, pc, op, params, execs, requests, accessToken, responseText,
          textCalls, textResult, parses, outcome>>

Ops == {"generateVertexClaudeText", "streamVertexClaudeText",
        "generateVertexClaudeObject"}

NoParams == [messages |-> <<>>, maxTokens |-> <<>>]

Init ==
  /\ env \in Envs
  /\ pc = "idle"
  /\ op = ""
  /\ params = NoParams
  /\ execs = 0
  /\ requests = <<>>
  /\ accessToken = Undef
  /\ responseText = <<>>
  /\ textCalls = 0
  /\ textResult = Pending
  /\ parses = 0
  /\ outcome = Pending

\* An entry point is called.  All three run generateVertexClaudeText, which
\* runs up to its first await: the check of the environment, then the start
\* of the credential command.
Call(o, messages, maxTokens) ==
  /\ pc = "idle"
  /\ op' = o
  /\ params' = [messages |-> messages, maxTokens |-> maxTokens]
  /\ textCalls' = 1
  /\ requests' = <<>>
  /\ accessToken' = Undef
  /\ responseText' = <<>>
  /\ parses' = 0
  /\ outcome' = Pending
  /\ IF EnvMissing(env)
     THEN /\ textResult' = Rejected(ConfigError)
          /\ execs' = 0
          /\ pc' = "settled"
     ELSE /\ textResult' = Pending
          /\ execs' = 1
          /\ pc' = "token"
  /\ UNCHANGED env

\* getAccessToken: the credential command fails
ExecFails ==
  /\ pc = "token"
  /\ textResult' = Rejected(CredentialError)
  /\ pc' = "settled"
  /\ UNCHANGED <<env, op, params, execs, requests, accessToken, responseText,
                 textCalls, parses, outcome>>

\* getAccessToken returns the trimmed output; the payload is built and the
\* request is issued
ExecSucceeds(stdout) ==
  /\ pc = "token"
  /\ accessToken' = JStr(Trim(stdout))
  /\ requests' = Append(requests,
       [authorization |-> <<"Bearer", SP>> \o Trim(stdout),
        body |-> Payload(params.messages, MaxTokensParam(params.maxTokens))])
  /\ pc' = "response"
  /\ UNCHANGED <<env, op, params, execs, responseText, textCalls, textResult,
                 parses, outcome>>

\* the response is not ok
HttpFails ==
  /\ pc = "response"
  /\ textResult' = Rejected(HttpError)
  /\ pc' = "settled"
  /\ UNCHANGED <<env, op, params, execs, requests, accessToken, responseText,
                 textCalls, parses, outcome>>

\* a 2xx response with this body: the text is extracted
HttpOk(body) ==
  /\ pc = "response"
  /\ responseText' = body
  /\ textResult' = Resolved(ExtractResult(body))
  /\ pc' = "settled"
  /\ UNCHANGED <<env, op, params, execs, requests, accessToken, textCalls,
                 parses, outcome>>

\* generateVertexClaudeText and streamVertexClaudeText return the promise of
\* the text; generateVertexClaudeObject passes a rejection on
ReturnText ==
  /\ pc = "settled"
  /\ op # "generateVertexClaudeObject" \/ textResult.state = "rejected"
  /\ outcome' = textResult
  /\ pc' = "done"
  /\ UNCHANGED <<env, op, params, execs, requests, accessToken, responseText,
                 textCalls, textResult, parses>>

\* generateVertexClaudeObject parses the text
ParseObject ==
  /\ pc = "settled"
  /\ op = "generateVertexClaudeObject"
  /\ textResult.state = "resolved"
  /\ parses' = parses + 1
  /\ outcome' = ObjectOutcome(textResult.v)
  /\ pc' = "done"
  /\ UNCHANGED <<env, op, params, execs, requests, accessToken, responseText,
                 textCalls, textResult>>

\* the caller has the outcome and the call's locals are gone; the next call
\* can start
Return ==
  /\ pc = "done"
  /\ pc' = "idle"
  /\ op' = ""
  /\ params' = NoParams
  /\ execs' = 0
  /\ requests' = <<>>
  /\ accessToken' = Undef
  /\ responseText' = <<>>
  /\ textCalls' = 0
  /\ textResult' = Pending
  /\ parses' = 0
  /\ outcome' = Pending
  /\ UNCHANGED env

\* any request, few response bodies
Next ==
  \/ /\ pc = "idle"
     /\ \E o \in Ops, m \in MessageLists, t \in MaxTokensArgs : Call(o, m, t)
  \/ ExecFails
  \/ \E stdout \in Stdouts : ExecSucceeds(stdout)
  \/ HttpFails
  \/ /\ pc = "response"
     /\ \E body \in FewBodies : HttpOk(body)
  \/ ReturnText
  \/ ParseObject
  \/ Return

Spec == Init /\ [][Next]_vars

\* few requests, any response body
NextResponse ==
  \/ /\ pc = "idle"
     /\ \E o \in Ops, m \in FewMessageLists, t \in FewMaxTokensArgs :
          Call(o, m, t)
  \/ ExecFails
  \/ \E stdout \in Stdouts : ExecSucceeds(stdout)
  \/ HttpFails
  \/ /\ pc = "response"
     /\ \E body \in AllBodies : HttpOk(body)
  \/ ReturnText
  \/ ParseObject
  \/ Return

SpecResponse == Init /\ [][NextResponse]_vars

\* =============================================================== claims
\* the text generation has resolved: a 2xx response was processed
TextResolved == pc \in {"settled", "done"} /\ textResult.state = "resolved"

IsBlank(line) == Trim(line) = <<>>
Parses(line) == ~IsBlank(line) /\ JSONParse(line).ok
IsInvalid(line) == ~IsBlank(line) /\ ~JSONParse(line).ok
NotInvalid(line) == ~IsInvalid(line)

\* the lines of a body that parse, in order
ParsedLines(body) == SelectSeq(SplitLines(body), Parses)
HasParsedLine(body) == ParsedLines(body) # <<>>
LastParsedValue(body) ==
  JSONParse(ParsedLines(body)[Len(ParsedLines(body))]).v

\* the body without its unparseable lines
WithoutInvalidLines(body) ==
  Join(SelectSeq(SplitLines(body), NotInvalid), <<NL>>)

\* C1: when some line of the body parses, the result depends on the value of
\* the last line that parses only: every body with the same last parsed
\* value gives the same result.
C1_LastParsedLineDecides ==
  (TextResolved /\ HasParsedLine(responseText)) =>
    \A b \in AllBodies :
      (HasParsedLine(b) /\ LastParsedValue(b) = LastParsedValue(responseText))
        => ExtractResult(b) = textResult.v

\* C2: for a body with unparseable lines and at least one line that parses,
\* the result is the result for the body without the unparseable lines.
C2_InvalidLinesIgnored ==
  (/\ TextResolved
   /\ HasParsedLine(responseText)
   /\ \E n \in 1..Len(SplitLines(responseText)) :
        IsInvalid(SplitLines(responseText)[n]))
    => textResult.v = ExtractResult(WithoutInvalidLines(responseText))

\* C3: when no line of a 2xx body parses as JSON, the call resolves with the
\* body exactly as received, untrimmed.
C3_RawBodyWhenNothingParses ==
  (TextResolved /\ ~HasParsedLine(responseText))
    => textResult.v = JStr(responseText)

\* C3 witness: a body with leading white space and a trailing newline, none
\* of whose lines parses, was returned as it is.
C3_Witness ==
  /\ TextResolved
  /\ ~HasParsedLine(responseText)
  /\ TrimStart(responseText) # responseText
  /\ TrimEnd(responseText) # responseText
  /\ Trim(responseText) # <<>>
  /\ textResult.v = JStr(responseText)

\* C4: for every 2xx body, generateVertexClaudeText resolves with a string.
C4_ResultIsString ==
  (pc \in {"settled", "done"} /\ Len(requests) = 1
     /\ textResult.error # HttpError)
    => (textResult.state = "resolved" /\ textResult.v.t = "str")

\* the value at a path of v, undefined where the path does not exist
Field(v, key) == IF v.t = "obj" THEN Get(v, key) ELSE Undef
Elem0(v) == IF v.t = "arr" THEN First(v) ELSE Undef

\* the five paths, in the order of their priority
PathValues(v) ==
  << Field(Field(v, "delta"), "text"),
     Field(Field(v, "content"), "text"),
     Field(Elem0(Field(v, "content")), "text"),
     Field(Field(v, "message"), "content"),
     Field(v, "text") >>

CarriesText(x) == x.t = "str" /\ x.s # <<>>

\* C5: when the last parsed value carries text at one or more of the paths
\* delta.text, content.text, content[0].text, message.content, text, the
\* result is the text at the earliest of them (so the regex and the
\* serialization are used only when none carries text).
C5_EarliestPathWins ==
  (TextResolved /\ HasParsedLine(responseText)) =>
    LET paths == PathValues(LastParsedValue(responseText))
    IN  \A n \in 1..Len(paths) :
          (CarriesText(paths[n]) /\ \A m \in 1..(n - 1) : ~CarriesText(paths[m]))
            => textResult.v = paths[n]

IsSystem(m) == m.role = "system"
IsUser(m) == m.role = "user"

\* the contents of the user messages, in their order
UserContents(messages) ==
  LET users == SelectSeq(messages, IsUser)
  IN  [n \in 1..Len(users) |-> users[n].content]

HasSystem(messages) == \E n \in 1..Len(messages) : IsSystem(messages[n])

LastSystemContent(messages) ==
  LET systems == SelectSeq(messages, IsSystem)
  IN  systems[Len(systems)].content

\* the payload has one user message with one text block
OneUserTextBlock(body) ==
  /\ Len(body.messages) = 1
  /\ body.messages[1].role = "user"
  /\ Len(body.messages[1].content) = 1
  /\ body.messages[1].content[1].type = "text"

\* C6 as stated: the text is the last system content, a blank line and the
\* user contents joined by blank lines; the system part and its separator
\* are left out only when there is no system message.
C6_Original ==
  \A n \in 1..Len(requests) :
    /\ OneUserTextBlock(requests[n].body)
    /\ requests[n].body.messages[1].content[1].text =
         (IF HasSystem(params.messages)
          THEN LastSystemContent(params.messages) \o <<NL, NL>>
          ELSE <<>>)
           \o Join(UserContents(params.messages), <<NL, NL>>)

\* C6 amended: the system part and its separator are left out when there is
\* no system message or the content of the last system message is empty.
C6_PromptText ==
  \A n \in 1..Len(requests) :
    /\ OneUserTextBlock(requests[n].body)
    /\ requests[n].body.messages[1].content[1].text =
         (IF HasSystem(params.messages)
               /\ LastSystemContent(params.messages) # <<>>
          THEN LastSystemContent(params.messages) \o <<NL, NL>>
          ELSE <<>>)
           \o Join(UserContents(params.messages), <<NL, NL>>)

\* C6 witness: two system messages and a user message; the request carries
\* the content of the second system message, then the user content.
C6_Witness ==
  /\ Len(requests) = 1
  /\ params.messages = <<[role |-> "system", content |-> <<"s">>],
                         [role |-> "system", content |-> <<"t">>],
                         [role |-> "user", content |-> <<"a">>]>>
  /\ requests[1].body.messages[1].content[1].text = <<"t", NL, NL, "a">>

\* C7: max_tokens of the payload is at most 64000: 64000 for a requested
\* value above 64000, the requested value otherwise, 1024 when omitted.
C7_MaxTokensClamped ==
  \A n \in 1..Len(requests) :
    LET sent == requests[n].body.max_tokens
        arg == params.maxTokens
    IN  /\ sent <= 64000
        /\ arg = <<>> => sent = 1024
        /\ (arg # <<>> /\ arg[1] > 64000) => sent = 64000
        /\ (arg # <<>> /\ arg[1] <= 64000) => sent = arg[1]

\* C7 witness: 64001 tokens were requested and 64000 were sent.
C7_Witness ==
  /\ Len(requests) = 1
  /\ params.maxTokens = <<64001>>
  /\ requests[1].body.max_tokens = 64000

Unset(x) == x = Undef \/ x = JStr(<<>>)

\* C8: with VERTEX_PROJECT_ID or VERTEX_LOCATION unset or empty, a call of
\* any of the three entry points issues no HTTP request at any point and
\* rejects with the configuration error.
C8_NoRequestWithoutConfig ==
  (Unset(env.projectId) \/ Unset(env.location)) =>
    /\ requests = <<>>
    /\ pc \in {"idle", "settled", "done"}
    /\ pc = "settled" => textResult = Rejected(ConfigError)
    /\ pc = "done" => outcome = Rejected(ConfigError)

\* C8 witness: generateVertexClaudeObject, called with the project set and
\* the location empty, has rejected with the configuration error.
C8_Witness ==
  /\ pc = "done"
  /\ op = "generateVertexClaudeObject"
  /\ env.projectId = JStr(<<"v">>)
  /\ env.location = JStr(<<>>)
  /\ outcome = Rejected(ConfigError)
  /\ requests = <<>>

\* C9: a request is issued only with a non-empty token: when the credential
\* command fails or prints nothing usable the call rejects with the
\* credential error and issues no request.
C9_RequestNeedsToken ==
  /\ \A n \in 1..Len(requests) : requests[n].authorization # <<"Bearer", SP>>
  /\ (pc \in {"response", "settled", "done"} /\ ~EnvMissing(env)
        /\ ~Truthy(accessToken))
       => (requests = <<>>
           /\ (pc = "settled" => textResult = Rejected(CredentialError))
           /\ (pc = "done" => outcome = Rejected(CredentialError)))

\* C10: generateVertexClaudeObject runs the text path once, issues at most
\* one request and, when the text path resolved with a text, parses it once:
\* it resolves with the decoded value when the text is JSON and rejects with
\* 'Failed to generate object' when it is not.
C10_ObjectParsedOnce ==
  (pc = "done" /\ op = "generateVertexClaudeObject") =>
    /\ textCalls = 1
    /\ Len(requests) <= 1
    /\ execs <= 1
    /\ parses = (IF textResult.state = "resolved" THEN 1 ELSE 0)
    /\ textResult.state = "rejected" => outcome = textResult
    /\ (textResult.state = "resolved" /\ textResult.v.t = "str") =>
         IF JSONParse(textResult.v.s).ok
         THEN outcome = Resolved(JSONParse(textResult.v.s).v)
         ELSE outcome = Rejected(ObjectParseError)

\* C10 witness: the text "4" was generated and the call resolved with the
\* number 4 after one request and one parse.
C10_Witness ==
  /\ pc = "done"
  /\ op = "generateVertexClaudeObject"
  /\ textResult = Resolved(JStr(<<"4">>))
  /\ outcome = Resolved(JNum(<<"4">>))
  /\ parses = 1
  /\ Len(requests) = 1

\* C11: when the last parsed value has no text at delta.text, content.text
\* and content[0].text, and its message.content is a non-empty list whose
\* first element has a text, the result is that text,
\* message.content[0].text.
C11_MessageContentList ==
  (TextResolved /\ HasParsedLine(responseText)) =>
    LET v == LastParsedValue(responseText)
        paths == PathValues(v)
        mcontent == Field(Field(v, "message"), "content")
    IN  (/\ \A n \in 1..3 : ~Truthy(paths[n])
         /\ mcontent.t = "arr"
         /\ Len(mcontent.items) > 0
         /\ CarriesText(Field(Elem0(mcontent), "text")))
          => textResult.v = Field(Elem0(mcontent), "text")

====
